---------------------------- MODULE Spec2Model ----------------------------
(***************************************************************************)
(* Model of src/src/main.rs: the schema analyzer.                          *)
(*                                                                         *)
(* main() asks the store for an estimated document count, derives a sample *)
(* size, sends one aggregation pipeline of twelve stages to the store and  *)
(* folds the records of the result cursor into a HashMap from field name   *)
(* to a Vec of type names.  Every fallible call is followed by .unwrap().  *)
(*                                                                         *)
(* The pipeline runs inside the store; each stage is one step of the model *)
(* and `docs` is the stream of documents between two stages.  Arrays built *)
(* by $addToSet, $setUnion and $setDifference have no specified element    *)
(* order: they are kept as sets, and every place that reads them in order  *)
(* ($unwind, $reduce, the driver decoding an array) takes any order.       *)
(***************************************************************************)
EXTENDS Integers, Sequences, FiniteSets, TLC

(***************************************************************************)
(* Bounds of the model.                                                    *)
(***************************************************************************)
MaxDocs == 2        \* documents the $sample stage returns, at most
MaxBatches == 2     \* records of a result cursor fed to the result loop
MaxEntries == 1     \* {field, types} entries of one such record

Fields == {"a", "b"}
\* top-level values of the stored documents: field a holds one of two integers
\* or a string, field b an integer or a string
Values == {"i1", "i2", "sx"}
ValuesOf(f) == IF f = "a" THEN Values ELSE {"i1", "sx"}
Types == {"int", "string"}
AllTypes == Types \cup {"missing"}

Range(s) == {s[i] : i \in 1..Len(s)}

\* every sequence that lists the elements of the finite set S once each
Orders(S) ==
    {s \in [1..Cardinality(S) -> S] : \A i, j \in 1..Cardinality(S) : s[i] = s[j] => i = j}

\* the duplicate-free sequences over S of length at most n
InjSeqs(S, n) ==
    UNION {Orders(T) : T \in {U \in SUBSET S : Cardinality(U) <= n}}

(***************************************************************************)
(* Unsigned integers wider than TLC's 32 bits: document_count is a u64.    *)
(* A number is <<d2, d1, d0>> with value d2*Radix^2 + d1*Radix + d0 and    *)
(* d1, d0 < Radix.  Enough for every count below 10^12.                    *)
(***************************************************************************)
Radix == 10^4

BigNorm(p2, p1, p0) ==
    LET t1 == p1 + (p0 \div Radix)
    IN  <<p2 + (t1 \div Radix), t1 % Radix, p0 % Radix>>

Big(n) == BigNorm(0, 0, n)

\* k * m for 0 <= k, m < Radix^2
BigMul(k, m) ==
    LET k1 == k \div Radix  k0 == k % Radix
        m1 == m \div Radix  m0 == m % Radix
    IN  BigNorm(k1 * m1, k1 * m0 + k0 * m1, k0 * m0)

BigScale(x, c) == BigNorm(x[1] * c, x[2] * c, x[3] * c)

BigAdd(x, y) == BigNorm(x[1] + y[1], x[2] + y[2], x[3] + y[3])

BigLeq(x, y) ==
    \/ x[1] < y[1]
    \/ x[1] = y[1] /\ x[2] < y[2]
    \/ x[1] = y[1] /\ x[2] = y[2] /\ x[3] <= y[3]

BigLess(x, y) == BigLeq(x, y) /\ x # y

(***************************************************************************)
(* f64 arithmetic of the sample size (main.rs 25-30).  Below 2^50 every    *)
(* count converts to f64 exactly and the correctly rounded square root     *)
(* rounds to the same integer as the real one, so a non-negative float is  *)
(* modelled by its exact square: [sq |-> x*x].                             *)
(***************************************************************************)
default_sample_size == 10000

\* `n as f64` for a small integer n
AsF64(n) == [sq |-> BigMul(n, n)]

\* f64::sqrt(document_count as f64)
F64Sqrt(count) == [sq |-> count]

\* f64::max
F64Max(x, y) == IF BigLeq(x.sq, y.sq) THEN y ELSE x

\* the greatest k in lo..hi with k = lo or (2k-1)^2 <= x4
RECURSIVE Greatest(_, _, _)
Greatest(lo, hi, x4) ==
    IF lo = hi THEN lo
    ELSE LET mid == (lo + hi + 1) \div 2
         IN  IF BigLeq(BigMul(2 * mid - 1, 2 * mid - 1), x4)
             THEN Greatest(mid, hi, x4)
             ELSE Greatest(lo, mid - 1, x4)

\* the greatest k in lo..hi with k = lo or (2k)^2 <= x4
RECURSIVE GreatestFloor(_, _, _)
GreatestFloor(lo, hi, x4) ==
    IF lo = hi THEN lo
    ELSE LET mid == (lo + hi + 1) \div 2
         IN  IF BigLeq(BigMul(2 * mid, 2 * mid), x4)
             THEN GreatestFloor(mid, hi, x4)
             ELSE GreatestFloor(lo, mid - 1, x4)

\* a variant of F64RoundAsI64: the cast alone, which truncates
F64TruncAsI64(x) == GreatestFloor(0, Radix * 100, BigScale(x.sq, 4))

\* f64::round (half away from zero) followed by `as i64`: the k >= 0 with
\* k - 1/2 <= x < k + 1/2, that is (2k-1)^2 <= 4*x^2 < (2k+1)^2, or 0
F64RoundAsI64(x) == Greatest(0, Radix * 100, BigScale(x.sq, 4))

\* main.rs 29-30
SampleSize(count) ==
    F64RoundAsI64(F64Max(AsF64(default_sample_size), F64Sqrt(count)))


(***************************************************************************)
(* Documents.  A BSON document is an ordered list of distinct field names  *)
(* with a value for each: [keys |-> <<"b", "a">>, val |-> [a |-> .., ..]]. *)
(* Two documents are equal when they have the same fields with the same    *)
(* values in the same order, which is how the store compares them.         *)
(***************************************************************************)
Documents ==
    UNION {{[keys |-> ks, val |-> v] :
                v \in {w \in [Range(ks) -> Values] : \A f \in Range(ks) : w[f] \in ValuesOf(f)}} :
           ks \in InjSeqs(Fields, Cardinality(Fields))}

\* the streams $sample can return
Samples == UNION {[1..n -> Documents] : n \in 0..MaxDocs}

\* $type of a stored value (main.rs 49)
BsonType(v) == IF v \in {"i1", "i2"} THEN "int" ELSE "string"

\* $objectToArray (main.rs 44, 130): one {k, v} per field, in field order
ObjectToArray(d) ==
    [i \in 1..Len(d.keys) |-> [k |-> d.keys[i], v |-> d.val[d.keys[i]]]]

\* "$schema.k" on an array of {k, v}: the array of the k's
PathK(arr) == [i \in 1..Len(arr) |-> arr[i].k]

\* a variant of ArrayToObject that lists the fields in one canonical order
ArrayToObjectSorted(arr) ==
    LET ks == {arr[i].k : i \in 1..Len(arr)}
        last(k) == CHOOSE i \in 1..Len(arr) :
                      arr[i].k = k /\ \A j \in 1..Len(arr) : arr[j].k = k => j <= i
    IN  [keys |-> CHOOSE s \in Orders(ks) : TRUE,
         val |-> [k \in ks |-> arr[last(k)].v]]

\* $arrayToObject (main.rs 115): fields in array order; a repeated key keeps
\* its first place and its last value
ArrayToObject(arr) ==
    LET first == {i \in 1..Len(arr) : \A j \in 1..(i - 1) : arr[j].k # arr[i].k}
        pos(n) == CHOOSE i \in first : Cardinality({j \in first : j < i}) = n - 1
        last(k) == CHOOSE i \in 1..Len(arr) :
                      arr[i].k = k /\ \A j \in 1..Len(arr) : arr[j].k = k => j <= i
    IN  [keys |-> [n \in 1..Cardinality(first) |-> arr[pos(n)].k],
         val |-> [k \in {arr[i].k : i \in 1..Len(arr)} |-> arr[last(k)].v]]

(***************************************************************************)
(* The pipeline (main.rs 32-159), one operator per stage, each from the    *)
(* stream it reads to the stream it writes.                                *)
(***************************************************************************)

\* stage 2, $project: the shape of each document (main.rs 38-54)
ProjectTypes(ds) ==
    [i \in 1..Len(ds) |->
        [schema |-> [j \in 1..Len(ds[i].keys) |->
                        [k |-> ObjectToArray(ds[i])[j].k,
                         v |-> BsonType(ObjectToArray(ds[i])[j].v)]]]]

\* a variant of GroupKeysSchema that keeps the last document's arrays only
GroupKeysSchemaLast(ds) ==
    IF ds = <<>> THEN <<>>
    ELSE <<[keys |-> {PathK(ds[Len(ds)].schema)}, schema |-> {ds[Len(ds)].schema}]>>

\* stage 3, $group by null with two $addToSet (main.rs 56-66); no input
\* document, no group
GroupKeysSchema(ds) ==
    IF ds = <<>> THEN <<>>
    ELSE <<[keys |-> {PathK(ds[i].schema) : i \in 1..Len(ds)},
            schema |-> {ds[i].schema : i \in 1..Len(ds)}]>>

\* $setUnion of the accumulated array and one array of keys (main.rs 76)
SetUnion(value, this) == value \cup Range(this)

\* a variant of ReduceKeys whose `in` is "$$this": the last array wins
RECURSIVE ReduceKeysLast(_, _)
ReduceKeysLast(input, value) ==
    IF input = {} THEN value
    ELSE LET this == CHOOSE x \in input : TRUE
         IN  ReduceKeysLast(input \ {this}, Range(this))

\* $reduce over the arrays of keys, initialValue [] (main.rs 72-78)
RECURSIVE ReduceKeys(_, _)
ReduceKeys(input, value) ==
    IF input = {} THEN value
    ELSE LET this == CHOOSE x \in input : TRUE
         IN  ReduceKeys(input \ {this}, SetUnion(value, this))

\* stage 4, $project (main.rs 68-82)
ProjectKeys(ds) ==
    [i \in 1..Len(ds) |-> [keys |-> ReduceKeys(ds[i].keys, {}), schema |-> ds[i].schema]]

\* stage 5, $unwind "$schema" (main.rs 84-86); ord lists the array's elements
UnwindSchema(ds, ord) ==
    [i \in 1..Len(ord) |-> [keys |-> ds[1].keys, schema |-> ord[i]]]

\* $setDifference (main.rs 93)
SetDifference(keys, ks) == keys \ Range(ks)

\* a variant of FillMissing that tags the absent keys "null"
FillNull(schema, diff) ==
    schema \o [i \in 1..Len(diff) |-> [k |-> diff[i], v |-> "null"]]

\* $reduce with $concatArrays over the absent keys (main.rs 91-102)
FillMissing(schema, diff) ==
    schema \o [i \in 1..Len(diff) |-> [k |-> diff[i], v |-> "missing"]]

\* the orders in which the absent keys of each document can be read
DiffOrders(ds) ==
    LET diff(i) == SetDifference(ds[i].keys, PathK(ds[i].schema))
        all == UNION {Orders(diff(i)) : i \in 1..Len(ds)}
    IN  {f \in [1..Len(ds) -> all] : \A i \in 1..Len(ds) : f[i] \in Orders(diff(i))}

\* stage 6, $project (main.rs 88-105)
ProjectMissing(ds, diffs) ==
    [i \in 1..Len(ds) |-> [schema |-> FillMissing(ds[i].schema, diffs[i])]]

\* stage 7, $group by null, $addToSet of $arrayToObject (main.rs 108-120)
GroupUnique(ds) ==
    IF ds = <<>> THEN <<>>
    ELSE <<[schema |-> {ArrayToObject(ds[i].schema) : i \in 1..Len(ds)}]>>

\* stage 8, $unwind "$schema" (main.rs 122-124)
UnwindUnique(ds, ord) == [i \in 1..Len(ord) |-> [schema |-> ord[i]]]

\* stage 9, $project with $objectToArray (main.rs 126-133)
ProjectArray(ds) == [i \in 1..Len(ds) |-> [schema |-> ObjectToArray(ds[i].schema)]]

\* stage 10, $unwind "$schema" (main.rs 135-137): one document per pair, in
\* array order; an empty array yields none
RECURSIVE UnwindPairs(_)
UnwindPairs(ds) ==
    IF ds = <<>> THEN <<>>
    ELSE [j \in 1..Len(ds[1].schema) |-> [schema |-> ds[1].schema[j]]]
         \o UnwindPairs(Tail(ds))

\* a variant of GroupTypes that accumulates with $first
GroupTypesFirst(ds) ==
    {[id |-> f,
      types |-> {ds[CHOOSE i \in 1..Len(ds) :
                        /\ ds[i].schema.k = f
                        /\ \A j \in 1..(i - 1) : ds[j].schema.k # f].schema.v}] :
        f \in {ds[i].schema.k : i \in 1..Len(ds)}}

\* stage 11, $group by "$schema.k" (main.rs 139-146): the groups, unordered
GroupTypes(ds) ==
    {[id |-> f, types |-> {ds[i].schema.v : i \in {j \in 1..Len(ds) : ds[j].schema.k = f}}] :
        f \in {ds[i].schema.k : i \in 1..Len(ds)}}

\* a variant of GroupAll without the last $group: one record per field
GroupEach(ds, ord, tord) ==
    [n \in 1..Len(ord) |->
        [schema |-> <<[field |-> ord[n].id, types |-> tord[ord[n].id]]>>]]

\* stage 12, $group by null (main.rs 148-158): ord is the order of the schema
\* array and tord[f] the order of f's types array in the record sent
GroupAll(ds, ord, tord) ==
    IF ds = <<>> THEN <<>>
    ELSE <<[schema |-> [n \in 1..Len(ord) |->
                          [field |-> ord[n].id, types |-> tord[ord[n].id]]]]>>

\* the orders the types arrays of the final record can have
TypeOrders(ds) ==
    LET ids == {ds[i].id : i \in 1..Len(ds)}
        of(f) == (CHOOSE i \in 1..Len(ds) : ds[i].id = f)
        all == UNION {Orders(ds[i].types) : i \in 1..Len(ds)}
    IN  {t \in [ids -> all] : \A f \in ids : t[f] \in Orders(ds[of(f)].types)}

(***************************************************************************)
(* The result loop (main.rs 167, 183-200).                                 *)
(***************************************************************************)
EmptyMap == [f \in {} |-> <<>>]

\* HashMap::insert (main.rs 197): the new value replaces the old one
Insert(m, field, types) ==
    [f \in DOMAIN m \cup {field} |-> IF f = field THEN types ELSE m[f]]

\* schema_entry.into_iter().for_each(...) (main.rs 185-198)
RECURSIVE InsertAll(_, _)
InsertAll(m, entries) ==
    IF entries = <<>> THEN m
    ELSE InsertAll(Insert(m, Head(entries).field, Head(entries).types), Tail(entries))

(***************************************************************************)
(* State.                                                                  *)
(***************************************************************************)
VARIABLES
    pc,              \* where main() is: count, size, aggregate, pipeline, loop, done
    document_count,  \* main.rs 19
    sample_size,     \* main.rs 29
    sample,          \* the documents stage 1 drew from the collection
    stage,           \* how many stages of the pipeline the store has run
    docs,            \* the stream after that stage
    result,          \* the records of the cursor aggregate() returned (main.rs 173)
    pos,             \* how many of them try_next() has handed out
    schema,          \* main.rs 167
    failure,         \* the external call that returned Err, or "none"
    outcome          \* "running", "ok" (main returned Ok(())) or "panic"

vars == <<pc, document_count, sample_size, sample, stage, docs, result, pos, schema,
          failure, outcome>>

\* the count the store reports for the small collections sampled below
MainCounts == {Big(100)}

\* counts around every threshold of the sample size, up to 10^12 - 1
DocumentCounts ==
    {Big(n) : n \in 0..20}
    \cup {Big(10^8 + d) : d \in -10..10}
    \cup {Big(10^8 + 10^4 + d) : d \in -3..3}
    \cup {BigAdd(<<100, 0, 0>>, Big(d)) : d \in 0..5}
    \cup {BigAdd(<<100, 10, 0>>, Big(d)) : d \in 0..3}
    \cup {<<Radix - 1, Radix - 1, Radix - 1>>}

Init ==
    /\ pc = "count"
    /\ document_count = Big(0)
    /\ sample_size = 0
    /\ sample = <<>>
    /\ stage = 0
    /\ docs = <<>>
    /\ result = <<>>
    /\ pos = 0
    /\ schema = EmptyMap
    /\ failure = "none"
    /\ outcome = "running"

\* Err(..).unwrap(): the thread panics and the process ends
Panic(call) ==
    /\ failure' = call
    /\ outcome' = "panic"
    /\ pc' = "done"
    /\ UNCHANGED <<document_count, sample_size, sample, stage, docs, result, pos, schema>>

\* estimated_document_count(None).await.unwrap() (main.rs 19-23)
EstimatedDocumentCount(counts) ==
    /\ pc = "count"
    /\ \E n \in counts : document_count' = n
    /\ pc' = "size"
    /\ UNCHANGED <<sample_size, sample, stage, docs, result, pos, schema, failure, outcome>>

CountFails ==
    /\ pc = "count"
    /\ Panic("estimated_document_count")

\* main.rs 25-30
ComputeSampleSize ==
    /\ pc = "size"
    /\ sample_size' = SampleSize(document_count)
    /\ pc' = "aggregate"
    /\ UNCHANGED <<document_count, sample, stage, docs, result, pos, schema, failure, outcome>>

\* aggregate(pipeline, None) is sent and stage 1, $sample, draws at most
\* sample_size documents (main.rs 33-37, 173-175)
Sample ==
    /\ pc = "aggregate"
    /\ \E s \in Samples :
        /\ Len(s) <= sample_size
        /\ sample' = s
        /\ docs' = s
    /\ stage' = 1
    /\ pc' = "pipeline"
    /\ UNCHANGED <<document_count, sample_size, result, pos, schema, failure, outcome>>

\* aggregate(..).await.unwrap() on Err (main.rs 173-177)
AggregateFails ==
    /\ pc = "aggregate"
    /\ Panic("aggregate")

\* the store is about to run stage n
Ready(n) == pc = "pipeline" /\ stage = n - 1

\* stage n writes the stream out
Emit(n, out) ==
    /\ docs' = out
    /\ stage' = n
    /\ UNCHANGED <<pc, document_count, sample_size, sample, result, pos, schema,
                   failure, outcome>>

StageProjectTypes == Ready(2) /\ Emit(2, ProjectTypes(docs))

StageGroupKeysSchema == Ready(3) /\ Emit(3, GroupKeysSchema(docs))

StageProjectKeys == Ready(4) /\ Emit(4, ProjectKeys(docs))

StageUnwindSchema ==
    /\ Ready(5)
    /\ \E ord \in Orders(IF docs = <<>> THEN {} ELSE docs[1].schema) :
        Emit(5, UnwindSchema(docs, ord))

StageProjectMissing ==
    /\ Ready(6)
    /\ \E diffs \in DiffOrders(docs) : Emit(6, ProjectMissing(docs, diffs))

StageGroupUnique == Ready(7) /\ Emit(7, GroupUnique(docs))

StageUnwindUnique ==
    /\ Ready(8)
    /\ \E ord \in Orders(IF docs = <<>> THEN {} ELSE docs[1].schema) :
        Emit(8, UnwindUnique(docs, ord))

StageProjectArray == Ready(9) /\ Emit(9, ProjectArray(docs))

StageUnwindPairs == Ready(10) /\ Emit(10, UnwindPairs(docs))

StageGroupTypes ==
    /\ Ready(11)
    /\ \E ord \in Orders(GroupTypes(docs)) : Emit(11, ord)

StageGroupAll ==
    /\ Ready(12)
    /\ \E ord \in Orders(Range(docs)) : \E tord \in TypeOrders(docs) :
        Emit(12, GroupAll(docs, ord, tord))

\* aggregate(..).await returns the cursor (main.rs 173-177)
CursorOpened ==
    /\ pc = "pipeline"
    /\ stage = 12
    /\ result' = docs
    /\ pc' = "loop"
    /\ UNCHANGED <<document_count, sample_size, sample, stage, docs, pos, schema,
                   failure, outcome>>

\* result.try_next() returns Some(doc): one turn of the loop (main.rs 183-200)
TryNextSome ==
    /\ pc = "loop"
    /\ pos < Len(result)
    /\ schema' = InsertAll(schema, result[pos + 1].schema)
    /\ pos' = pos + 1
    /\ UNCHANGED <<pc, document_count, sample_size, sample, stage, docs, result,
                   failure, outcome>>

\* result.try_next() returns None: the loop ends and main returns Ok(())
\* (main.rs 183, 201-206)
TryNextNone ==
    /\ pc = "loop"
    /\ pos = Len(result)
    /\ outcome' = "ok"
    /\ pc' = "done"
    /\ UNCHANGED <<document_count, sample_size, sample, stage, docs, result, pos, schema,
                   failure>>

\* result.try_next().await.unwrap() on Err (main.rs 183)
TryNextFails ==
    /\ pc = "loop"
    /\ Panic("try_next")

Next ==
    \/ EstimatedDocumentCount(MainCounts)
    \/ CountFails
    \/ ComputeSampleSize
    \/ Sample
    \/ AggregateFails
    \/ StageProjectTypes
    \/ StageGroupKeysSchema
    \/ StageProjectKeys
    \/ StageUnwindSchema
    \/ StageProjectMissing
    \/ StageGroupUnique
    \/ StageUnwindUnique
    \/ StageProjectArray
    \/ StageUnwindPairs
    \/ StageGroupTypes
    \/ StageGroupAll
    \/ CursorOpened
    \/ TryNextSome
    \/ TryNextNone
    \/ TryNextFails

Spec == Init /\ [][Next]_vars

(***************************************************************************)
(* The sample size alone, over many counts.                                *)
(***************************************************************************)
SamplerNext ==
    \/ EstimatedDocumentCount(DocumentCounts)
    \/ CountFails
    \/ ComputeSampleSize

SamplerSpec == Init /\ [][SamplerNext]_vars

(***************************************************************************)
(* The result loop alone, over any cursor: the records come from outside   *)
(* the program, and the loop takes whatever the cursor yields.             *)
(***************************************************************************)
Entries ==
    {[field |-> f, types |-> t] :
        f \in Fields, t \in InjSeqs(AllTypes, 2) \ {<<>>}}

Batches == {[schema |-> e] : e \in UNION {[1..n -> Entries] : n \in 0..MaxEntries}}

Cursors == UNION {[1..n -> Batches] : n \in 0..MaxBatches}

MergerInit ==
    /\ pc = "loop"
    /\ document_count = Big(100)
    /\ sample_size = default_sample_size
    /\ sample = <<>>
    /\ stage = 12
    /\ docs = <<>>
    /\ result \in Cursors
    /\ pos = 0
    /\ schema = EmptyMap
    /\ failure = "none"
    /\ outcome = "running"

MergerNext ==
    \/ TryNextSome
    \/ TryNextNone
    \/ TryNextFails

MergerSpec == MergerInit /\ [][MergerNext]_vars

(***************************************************************************)
(* The pipeline as one function of the sample, with one order picked where *)
(* the store is free to pick: what it yields for a sample other than the   *)
(* one in `sample`.                                                        *)
(***************************************************************************)
RECURSIVE AnyOrder(_)
AnyOrder(S) ==
    IF S = {} THEN <<>>
    ELSE LET x == CHOOSE y \in S : TRUE IN <<x>> \o AnyOrder(S \ {x})

AnyDiffs(ds) ==
    [i \in 1..Len(ds) |-> AnyOrder(SetDifference(ds[i].keys, PathK(ds[i].schema)))]

\* the stream after stage 4
KeysStream(s) == ProjectKeys(GroupKeysSchema(ProjectTypes(s)))

\* keys of the single document after stage 4, {} for an empty sample
GlobalKeySet(s) == IF KeysStream(s) = <<>> THEN {} ELSE KeysStream(s)[1].keys

\* the stream after stage 6
CompletedStream(s) ==
    LET s4 == KeysStream(s)
        s5 == UnwindSchema(s4, AnyOrder(IF s4 = <<>> THEN {} ELSE s4[1].schema))
    IN  ProjectMissing(s5, AnyDiffs(s5))

\* the groups of stage 11
TypeGroups(s) ==
    LET s7 == GroupUnique(CompletedStream(s))
        s8 == UnwindUnique(s7, AnyOrder(IF s7 = <<>> THEN {} ELSE s7[1].schema))
    IN  GroupTypes(UnwindPairs(ProjectArray(s8)))

\* field -> set of types, as the result loop leaves it for sample s
SchemaAggregate(s) ==
    LET g == TypeGroups(s)
    IN  [f \in {x.id : x \in g} |-> (CHOOSE x \in g : x.id = f).types]

\* a HashMap<String, Vec<String>> as field -> set of types
AsSets(m) == [f \in DOMAIN m |-> Range(m[f])]

\* the top-level field names and the shape of a sampled document
FieldsOf(d) == Range(d.keys)
TypeOf(d, f) == BsonType(d.val[f])

\* the `while let` loop run to its end over the records bs, from map m
\* (main.rs 183-200)
RECURSIVE Merged(_, _)
Merged(m, bs) ==
    IF bs = <<>> THEN m ELSE Merged(InsertAll(m, Head(bs).schema), Tail(bs))

\* the unordered and the ordered (field, type) pairs of a sampled document
PairSet(d) == {<<f, TypeOf(d, f)>> : f \in FieldsOf(d)}
Shape(d) == [j \in 1..Len(d.keys) |-> <<d.keys[j], TypeOf(d, d.keys[j])>>]

\* the ordered (field, type) pairs of a completed shape held as an object
ObjShape(o) == [j \in 1..Len(o.keys) |-> <<o.keys[j], o.val[o.keys[j]]>>]

\* completed shape o is source shape sh followed by "missing" pairs only
Completes(o, sh) ==
    /\ Len(sh) <= Len(ObjShape(o))
    /\ \A j \in 1..Len(ObjShape(o)) :
        IF j <= Len(sh) THEN ObjShape(o)[j] = sh[j] ELSE ObjShape(o)[j][2] = "missing"

(***************************************************************************)
(* C1.  Result Merger: when the loop has consumed the whole cursor, every  *)
(* field mentioned in some record maps to the union of the types all the   *)
(* records report for it, and no other field is in the map.  (MergerSpec)  *)
(***************************************************************************)
Mentions(f) ==
    {be \in UNION {{<<b, e>> : e \in 1..Len(result[b].schema)} : b \in 1..Len(result)} :
        result[be[1]].schema[be[2]].field = f}

C1_MergeIsUnion ==
    (pc = "done" /\ outcome = "ok") =>
        \A f \in Fields :
            IF Mentions(f) = {} THEN f \notin DOMAIN schema
            ELSE /\ f \in DOMAIN schema
                 /\ Range(schema[f]) =
                        UNION {Range(result[be[1]].schema[be[2]].types) : be \in Mentions(f)}

(***************************************************************************)
(* C2.  Result Merger: for a cursor of two records the final map is the    *)
(* same as for the two records in the other order, and merging the record  *)
(* just merged a second time leaves the map unchanged.  (MergerSpec)       *)
(***************************************************************************)
C2_MergeCommutativeIdempotent ==
    /\ (pc = "done" /\ outcome = "ok" /\ Len(result) = 2) =>
            AsSets(schema) = AsSets(Merged(EmptyMap, <<result[2], result[1]>>))
    /\ (pc \in {"loop", "done"} /\ pos >= 1) =>
            AsSets(InsertAll(schema, result[pos].schema)) = AsSets(schema)

(***************************************************************************)
(* C3.  Shape Completer: stage 6 turns every shape into one with exactly   *)
(* one pair per key of the key set computed by stage 4, typed "missing"    *)
(* exactly for the keys the source shape lacked, and with the source pairs *)
(* unchanged in front.                                                     *)
(***************************************************************************)
CompletedFrom(src, keys, out) ==
    /\ Len(out) = Cardinality(keys)
    /\ \A k \in keys : Cardinality({j \in 1..Len(out) : out[j].k = k}) = 1
    /\ \A j \in 1..Len(out) :
        /\ out[j].k \in keys
        /\ out[j].v = "missing" <=> out[j].k \notin Range(PathK(src))
    /\ Len(src) <= Len(out)
    /\ \A j \in 1..Len(src) : out[j] = src[j]

C3_ShapeCompleted ==
    [][(Ready(6) /\ stage' = 6) =>
        /\ Len(docs') = Len(docs)
        /\ \A i \in 1..Len(docs) :
            CompletedFrom(docs[i].schema, docs[i].keys, docs'[i].schema)]_vars

C3_Witness ==
    /\ stage = 6
    /\ \E i \in 1..Len(docs) :
        /\ Len(docs[i].schema) = Cardinality(Fields)
        /\ docs[i].schema[1].v # "missing"
        /\ docs[i].schema[2].v = "missing"

(***************************************************************************)
(* C4.  Key Unifier: after stage 4 the key set is the union of the field   *)
(* names of the sampled documents, and the pipeline computes the same set  *)
(* for every order in which the sample can arrive.                         *)
(***************************************************************************)
KeysNow == IF docs = <<>> THEN {} ELSE docs[1].keys

C4_GlobalKeySet ==
    stage = 4 =>
        /\ Len(docs) <= 1
        /\ KeysNow = UNION {FieldsOf(sample[i]) : i \in 1..Len(sample)}
        /\ \A p \in Orders(1..Len(sample)) :
            GlobalKeySet([i \in 1..Len(sample) |-> sample[p[i]]]) = KeysNow

C4_Witness ==
    /\ stage = 4
    /\ Len(sample) = 2
    /\ FieldsOf(sample[1]) = {"a"}
    /\ FieldsOf(sample[2]) = {"b"}
    /\ KeysNow = {"a", "b"}

(***************************************************************************)
(* C5.  Type Aggregator: when main returns, every field f of the map has   *)
(* "missing" among its types exactly when some sampled document lacks f,   *)
(* and its other types are exactly the types f has in the sample.          *)
(***************************************************************************)
C5_Aggregate ==
    outcome = "ok" =>
        \A f \in DOMAIN schema :
            /\ "missing" \in Range(schema[f]) <=>
                    \E i \in 1..Len(sample) : f \notin FieldsOf(sample[i])
            /\ Range(schema[f]) \ {"missing"} =
                    {TypeOf(sample[i], f) :
                        i \in {j \in 1..Len(sample) : f \in FieldsOf(sample[j])}}

C5_Witness ==
    /\ outcome = "ok"
    /\ DOMAIN schema = {"a", "b"}
    /\ Range(schema["a"]) = {"int", "string"}
    /\ Range(schema["b"]) = {"string", "missing"}

(***************************************************************************)
(* C6.  Frequency independence: the map main ends with is, as field ->     *)
(* set of types, what the pipeline yields for the same sample with any one *)
(* of its documents repeated, at the end or at the front.                  *)
(***************************************************************************)
C6_RepeatedDocument ==
    outcome = "ok" =>
        \A i \in 1..Len(sample) :
            /\ SchemaAggregate(Append(sample, sample[i])) = AsSets(schema)
            /\ SchemaAggregate(<<sample[i]>> \o sample) = AsSets(schema)

C6_Witness ==
    /\ outcome = "ok"
    /\ Len(sample) = 2
    /\ sample[1] # sample[2]
    /\ DOMAIN schema = {"a", "b"}
    /\ \E f \in DOMAIN schema : Cardinality(Range(schema[f])) = 2

C8_FailureIsTypedError ==
    failure # "none" =>
        /\ pc = "done"
        /\ outcome # "ok"
        /\ outcome = "DataSourceError"

(***************************************************************************)
(* C9.  Shape Deduplicator, as claimed: stage 7 keeps one shape per set of *)
(* (field, type) pairs occurring in the sample.                            *)
(***************************************************************************)
C9_DedupByPairSet ==
    (stage = 7 /\ docs # <<>>) =>
        Cardinality(docs[1].schema) =
            Cardinality({PairSet(sample[i]) : i \in 1..Len(sample)})

(***************************************************************************)
(* C9, amended.  Stage 7 keeps one completed shape per ordered list of     *)
(* (field, type) pairs occurring in the sample: each kept shape completes  *)
(* the ordered shape of a sampled document, every sampled document has     *)
(* one, and there are as many as distinct ordered shapes.                  *)
(***************************************************************************)
C9_DedupByOrderedShape ==
    (stage = 7 /\ docs # <<>>) =>
        /\ Len(docs) = 1
        /\ Cardinality(docs[1].schema) =
                Cardinality({Shape(sample[i]) : i \in 1..Len(sample)})
        /\ \A i \in 1..Len(sample) :
                \E o \in docs[1].schema : Completes(o, Shape(sample[i]))
        /\ \A o \in docs[1].schema :
                \E i \in 1..Len(sample) : Completes(o, Shape(sample[i]))

C9_Witness ==
    /\ stage = 7
    /\ Len(sample) = 2
    /\ PairSet(sample[1]) = PairSet(sample[2])
    /\ Shape(sample[1]) # Shape(sample[2])
    /\ Cardinality(docs[1].schema) = 2

(***************************************************************************)
(* C10.  The cursor of the pipeline holds at most one record, none for an  *)
(* empty sample; no field occurs twice in it; the loop never inserts a     *)
(* field the map already holds; and the final map is that record's         *)
(* field -> types mapping.                                                 *)
(***************************************************************************)
RecordMap(r) ==
    [f \in {r.schema[n].field : n \in 1..Len(r.schema)} |->
        r.schema[CHOOSE n \in 1..Len(r.schema) : r.schema[n].field = f].types]

C10_SingleRecord ==
    pc \in {"loop", "done"} =>
        /\ Len(result) <= 1
        /\ sample = <<>> => result = <<>>
        /\ \A b \in 1..Len(result) : \A n, m \in 1..Len(result[b].schema) :
                result[b].schema[n].field = result[b].schema[m].field => n = m
        /\ (pc = "loop" /\ pos < Len(result)) =>
                \A n \in 1..Len(result[pos + 1].schema) :
                    result[pos + 1].schema[n].field \notin DOMAIN schema
        /\ outcome = "ok" =>
                schema = (IF result = <<>> THEN EmptyMap ELSE RecordMap(result[1]))

C10_Witness ==
    /\ outcome = "ok"
    /\ Len(result) = 1
    /\ Len(result[1].schema) = 2
    /\ DOMAIN schema = {"a", "b"}

=============================================================================
